---- MODULE Spec2Model ----
(***************************************************************************)
(* A model of scel_transfer.py: the decoder of Sogou cell dictionaries     *)
(* (.scel) and the emitter that writes the decoded records as text and     *)
(* merges them into a Rime cn_dicts directory.                             *)
(*                                                                         *)
(* Text is a sequence of Unicode code points, a file's bytes are numbers   *)
(* 0..255.  A .scel file is kept sparse: its size and the byte segments    *)
(* that are not zero padding.                                              *)
(***************************************************************************)
EXTENDS Integers, Sequences, FiniteSets, TLC

VARIABLES
    args,            \* the parsed command line
    scel,            \* the input file: [size, segs]
    header_yaml,     \* the pieces of ./header.yaml
    cn_dir,          \* <rime_dir>/cn_dicts: file name -> text
    flat,            \* the flat output file: NoFile or [path, text]
    pc,              \* where process() stands
    err,             \* the exception that ended the run, or NoErr
    pos,             \* f.tell()
    hz_offset, meta, py_map, cnt, file_size,
    words, word_cnt, syllable_cnt, syllables, full_spell,
    s_i, w_i,        \* the two for-loops' counters in word_table
    header, runs,
    uniq_words,      \* what unique_words returned
    src,             \* what the input file was built from
    g_syl,           \* the raw (index, text) entries syllable_table read
    g_blocks,        \* per block read: where it starts, its declared counts, its indices
    g_recs,          \* per record appended: its block and where its trailer lies
    g_short,         \* a read inside word_table returned fewer bytes than asked
    g_iter,          \* the stream position at the start of the running loop iteration
    g_dir            \* cn_dicts as unique_words found it

vars == <<args, scel, header_yaml, cn_dir, flat, pc, err, pos, hz_offset, meta,
          py_map, cnt, file_size, words, word_cnt, syllable_cnt, syllables,
          full_spell, s_i, w_i, header, runs, src, g_syl, g_blocks, g_recs,
          g_short, g_iter, uniq_words, g_dir>>

----------------------------------------------------------------------------
(* Bounds of the model. *)
MaxBlocks == 2
MaxWords == 2
MaxSyl == 3
MaxRuns == 2
MaxRecs == 2

(* Constants of the program. *)
MASK_44 == 68
MASK_45 == 69
HZ_OFFSET_44 == 9768
HZ_OFFSET_45 == 9924
HEAD_LEN == 128
MASK_INDEX == 4
TITLE_AT == 304
CATEGORY_AT == 824
DESC_AT == 1344
SAMPLES_AT == 3392
SAMPLES_END == 5440
SYLLABLE_AT == 5444
EXT_BYTES == 12
EXT_LEN_BYTES == 2
EXT_REST_BYTES == 8
NUL == 0
TAB == 9
LF == 10
SPACE == 32
DOT == 46

None == "None"
NoErr == [kind |-> "none", value |-> 0, where |-> "none"]
NoFile == [path |-> <<>>, text |-> <<>>, exists |-> FALSE]

Min(a, b) == IF a < b THEN a ELSE b
Max(a, b) == IF a < b THEN b ELSE a
SetMax(S) == CHOOSE x \in S : \A y \in S : y <= x

RECURSIVE Flatten(_)
Flatten(ss) == IF ss = <<>> THEN <<>> ELSE Head(ss) \o Flatten(Tail(ss))

RECURSIVE SeqsUpTo(_, _)
SeqsUpTo(S, n) ==
    IF n = 0 THEN {<<>>}
    ELSE LET shorter == SeqsUpTo(S, n - 1)
         IN shorter \cup {Append(s, x) : s \in {t \in shorter : Len(t) = n - 1}, x \in S}

----------------------------------------------------------------------------
(* The byte stream. *)

ByteAt(f, i) ==
    LET hit == {s \in f.segs : s.at <= i /\ i < s.at + Len(s.bytes)}
    IN IF hit = {} THEN 0
       ELSE LET s == CHOOSE s \in hit : TRUE IN s.bytes[i - s.at + 1]

\* f.read(n) at position p returns this many bytes: none at or past the end.
Avail(f, p, n) == IF p >= f.size THEN 0 ELSE Min(n, f.size - p)

AdvanceStuck(p, k) == p

\* the stream position after a read of k bytes at p
Advance(p, k) == p + k

\* f.read(n), the bytes thrown away
Skip(f, p, n) ==
    LET k == Avail(f, p, n)
    IN [pos |-> Advance(p, k), short |-> k < n]

\* struct.unpack("<H", f.read(2))
ReadUint16(f, p) ==
    LET k == Avail(f, p, 2)
    IN IF k < 2
       THEN [ok |-> FALSE, kind |-> "struct.error", v |-> 0,
             pos |-> Advance(p, k), short |-> TRUE]
       ELSE [ok |-> TRUE, kind |-> "none", v |-> ByteAt(f, p) + 256 * ByteAt(f, p + 1),
             pos |-> Advance(p, 2), short |-> FALSE]

IsHigh(u) == u >= 55296 /\ u <= 56319
IsLow(u) == u >= 56320 /\ u <= 57343

\* bytes.decode("UTF-16LE") of the code units u[from..]: a surrogate pair is one
\* code point, a lone surrogate is an error.
RECURSIVE DecodeUnits(_, _, _)
DecodeUnits(u, i, acc) ==
    IF i > Len(u) THEN [ok |-> TRUE, s |-> acc]
    ELSE IF IsHigh(u[i])
         THEN IF i + 1 <= Len(u) /\ IsLow(u[i + 1])
              THEN DecodeUnits(u, i + 2,
                       Append(acc, 65536 + (u[i] - 55296) * 1024 + (u[i + 1] - 56320)))
              ELSE [ok |-> FALSE, s |-> <<>>]
         ELSE IF IsLow(u[i]) THEN [ok |-> FALSE, s |-> <<>>]
              ELSE DecodeUnits(u, i + 1, Append(acc, u[i]))

\* s.rstrip("\0")
RStripNul(s) ==
    LET nz == {i \in 1..Len(s) : s[i] # NUL}
    IN IF nz = {} THEN <<>> ELSE SubSeq(s, 1, SetMax(nz))

\* The code units of the k bytes at p that are followed by zero units only: the
\* units up to the last one holding a byte of a segment that is not zero.
LastUnit(f, p, k) ==
    LET end == p + 2 * (k \div 2)
        nz == UNION {{((s.at + i - 1 - p) \div 2) + 1 :
                        i \in {i \in Max(1, p - s.at + 1)..Min(Len(s.bytes), end - s.at) :
                                 s.bytes[i] # 0}} :
                     s \in {s \in f.segs : s.at < end /\ p < s.at + Len(s.bytes)}}
    IN IF nz = {} THEN 0 ELSE SetMax(nz)

Only(S) == CHOOSE x \in S : TRUE

\* the code units of the first 2*m bytes at p
UnitsAt(f, p, m) ==
    [j \in 1..m |-> ByteAt(f, p + 2 * j - 2) + 256 * ByteAt(f, p + 2 * j - 1)]

\* read_utf16_str: f.read(size).decode("UTF-16LE").rstrip("\0").  An odd number
\* of bytes is "truncated data".  Zero units decode to NUL and a trailing run of
\* them is stripped, so only the units up to the last non-zero one are decoded (a
\* high surrogate there, followed by NUL or by nothing, is an error either way).
ReadUtf16Str(f, p, size) ==
    Only({IF k % 2 = 1 \/ ~d.ok
          THEN [ok |-> FALSE, kind |-> "UnicodeDecodeError", s |-> <<>>,
                pos |-> Advance(p, k), short |-> k < size]
          ELSE [ok |-> TRUE, kind |-> "none", s |-> RStripNul(d.s),
                pos |-> Advance(p, k), short |-> k < size] :
             k \in {Avail(f, p, size)},
             d \in {DecodeUnits(units, 1, <<>>) :
                      units \in {UnitsAt(f, p, m) :
                                   m \in {LastUnit(f, p, Avail(f, p, size))}}}})

----------------------------------------------------------------------------
(* Text helpers. *)

RECURSIVE Join(_, _)
\* sep.join(ss) for a one-character separator
Join(ss, sep) ==
    IF ss = <<>> THEN <<>>
    ELSE IF Len(ss) = 1 THEN ss[1]
         ELSE ss[1] \o <<sep>> \o Join(Tail(ss), sep)

RECURSIVE Str(_)
\* str(n) of a non-negative integer: its decimal digits
Str(n) == IF n < 10 THEN <<48 + n>> ELSE Str(n \div 10) \o <<48 + (n % 10)>>

\* to_raw_txt
ToRawTxt(records) ==
    Join([i \in 1..Len(records) |-> Join(records[i], TAB)], LF)

----------------------------------------------------------------------------
(* The file format, as the docstrings of syllable_table and word_table give   *)
(* it: what a well-formed input is built from.                              *)

U16(n) == <<n % 256, n \div 256>>
Zeros(n) == [i \in 1..n |-> 0]
EncText(s) == Flatten([i \in 1..Len(s) |-> U16(s[i])])

\* index, byte length, the syllable (pad: trailing NUL characters)
EncSyllable(e) ==
    U16(e.index) \o U16(2 * (Len(e.text) + e.pad)) \o EncText(e.text) \o Zeros(2 * e.pad)

\* char_cnt, word, ext_len (10), ext: a number and eight zero bytes
EncWord(w) ==
    U16(2 * (Len(w.text) + w.pad)) \o EncText(w.text) \o Zeros(2 * w.pad)
        \o U16(10) \o U16(w.freq) \o Zeros(EXT_REST_BYTES)

\* word_cnt, syllable_cnt (in bytes), the syllable indices, the words
EncBlock(b) ==
    U16(Len(b.words)) \o U16(2 * Len(b.idx))
        \o Flatten([i \in 1..Len(b.idx) |-> U16(b.idx[i])])
        \o Flatten([i \in 1..Len(b.words) |-> EncWord(b.words[i])])

EncTable(t) == Flatten([i \in 1..Len(t) |-> EncSyllable(t[i])])
EncBlocks(bs) == Flatten([i \in 1..Len(bs) |-> EncBlock(bs[i])])

\* get_hz_offset's table
HzOffsetOfSwapped(mask) ==
    IF mask = MASK_44 THEN [ok |-> TRUE, v |-> HZ_OFFSET_45]
    ELSE IF mask = MASK_45 THEN [ok |-> TRUE, v |-> HZ_OFFSET_44]
    ELSE [ok |-> FALSE, v |-> mask]

HzOffsetOf(mask) ==
    IF mask = MASK_44 THEN [ok |-> TRUE, v |-> HZ_OFFSET_44]
    ELSE IF mask = MASK_45 THEN [ok |-> TRUE, v |-> HZ_OFFSET_45]
    ELSE [ok |-> FALSE, v |-> mask]

\* Where a file with this mask byte keeps its word table (an unknown mask: as 0x44).
TableAt(mask) == IF mask = MASK_45 THEN HZ_OFFSET_45 ELSE HZ_OFFSET_44

TitleText == <<84>>

\* A file of n bytes: mask byte, title, syllable table, and the word-table bytes.
MakeScel(mask, tbytes, wbytes, n) ==
    [size |-> n,
     segs |-> {[at |-> MASK_INDEX, bytes |-> <<mask>>],
               [at |-> TITLE_AT, bytes |-> EncText(TitleText)],
               [at |-> SYLLABLE_AT, bytes |-> tbytes],
               [at |-> TableAt(mask), bytes |-> wbytes]}]

----------------------------------------------------------------------------
(* process(): the steps of one run. *)

env == <<args, scel, header_yaml, src, runs>>
outs == <<cn_dir, flat, header, uniq_words, g_dir>>
sylv == <<py_map, cnt, g_syl>>
blockv == <<word_cnt, syllable_cnt, syllables, full_spell, s_i, w_i>>
wtv == <<file_size, words, blockv, g_blocks, g_recs, g_short, g_iter>>

\* an exception swallowed: the run goes on to write what it has
RaiseSwallowed(kind, value, where) ==
    /\ pc' = "write_flat"
    /\ err' = [kind |-> kind, value |-> value, where |-> where]

\* An exception: nothing in the program catches one, so it ends the run.
Raise(kind, value, where) ==
    /\ pc' = "failed"
    /\ err' = [kind |-> kind, value |-> value, where |-> where]

Goto(label) == pc' = label /\ err' = err

\* check_args, and read_scel's open(scel, "rb")
CheckArgs ==
    /\ pc = "check_args"
    /\ IF ~args.scel_exists
       THEN Raise("AttributeError", 0, "check_args")
       ELSE IF args.rime_dir # None /\ args.dict_name = None
            THEN Raise("ValueError", 0, "check_args")
            ELSE Goto("get_hz_offset")
    /\ pos' = 0
    /\ UNCHANGED <<env, outs, hz_offset, meta, sylv, wtv>>

GetHzOffset ==
    /\ pc = "get_hz_offset"
    /\ \E k \in {Avail(scel, pos, HEAD_LEN)}, mask \in {ByteAt(scel, MASK_INDEX)} :
        \E off \in {HzOffsetOf(mask)} :
          /\ pos' = Advance(pos, k)
          /\ IF k <= MASK_INDEX
             THEN Raise("IndexError", MASK_INDEX, "get_hz_offset") /\ hz_offset' = hz_offset
             ELSE IF ~off.ok
                  THEN Raise("ValueError", off.v, "get_hz_offset") /\ hz_offset' = hz_offset
                  ELSE Goto("get_dict_meta") /\ hz_offset' = off.v
    /\ UNCHANGED <<env, outs, meta, sylv, wtv>>

GetDictMeta ==
    /\ pc = "get_dict_meta"
    /\ \E title \in {ReadUtf16Str(scel, TITLE_AT, CATEGORY_AT - TITLE_AT)},
          category \in {ReadUtf16Str(scel, CATEGORY_AT, DESC_AT - CATEGORY_AT)},
          desc \in {ReadUtf16Str(scel, DESC_AT, SAMPLES_AT - DESC_AT)},
          samples \in {ReadUtf16Str(scel, SAMPLES_AT, SAMPLES_END - SAMPLES_AT)} :
          IF ~title.ok
          THEN Raise(title.kind, 0, "get_dict_meta") /\ pos' = title.pos /\ meta' = meta
          ELSE IF ~category.ok
          THEN Raise(category.kind, 0, "get_dict_meta") /\ pos' = category.pos /\ meta' = meta
          ELSE IF ~desc.ok
          THEN Raise(desc.kind, 0, "get_dict_meta") /\ pos' = desc.pos /\ meta' = meta
          ELSE IF ~samples.ok
          THEN Raise(samples.kind, 0, "get_dict_meta") /\ pos' = samples.pos /\ meta' = meta
          ELSE /\ Goto("syllable_table_enter")
               /\ pos' = samples.pos
               /\ meta' = [title |-> title.s, category |-> category.s,
                           desc |-> desc.s, samples |-> samples.s]
    /\ UNCHANGED <<env, outs, hz_offset, sylv, wtv>>

ZUO == <<122, 117, 111>>

\* syllable_table: syllables = {}; f.seek(0x1540 + 4); cnt = 0
SyllableTableEnter ==
    /\ pc = "syllable_table_enter"
    /\ Goto("syllable_table")
    /\ pos' = SYLLABLE_AT
    /\ py_map' = <<>>
    /\ cnt' = 0
    /\ g_syl' = <<>>
    /\ UNCHANGED <<env, outs, hz_offset, meta, wtv>>

IndexOkUnchecked(index) == TRUE

\* assert index == cnt
IndexOk(index) == index = cnt

\* syllables[index] = syllable
DictSet(d, k, v) == [x \in (DOMAIN d) \cup {k} |-> IF x = k THEN v ELSE d[x]]

\* one pass of syllable_table's while True
SyllableEntry ==
    /\ pc = "syllable_table"
    /\ \E index \in {ReadUint16(scel, pos)} :
        \E length \in {ReadUint16(scel, index.pos)} :
        \E syllable \in {ReadUtf16Str(scel, length.pos, length.v)} :
          IF ~index.ok
          THEN Raise(index.kind, 0, "syllable_table") /\ pos' = index.pos
               /\ UNCHANGED sylv
          ELSE IF ~length.ok
          THEN Raise(length.kind, 0, "syllable_table") /\ pos' = length.pos
               /\ UNCHANGED sylv
          ELSE IF ~syllable.ok
          THEN Raise(syllable.kind, 0, "syllable_table") /\ pos' = syllable.pos
               /\ UNCHANGED sylv
          ELSE IF ~IndexOk(index.v)
          THEN Raise("AssertionError", index.v, "syllable_table") /\ pos' = syllable.pos
               /\ UNCHANGED sylv
          ELSE /\ pos' = syllable.pos
               /\ py_map' = DictSet(py_map, index.v, syllable.s)
               /\ cnt' = cnt + 1
               /\ g_syl' = Append(g_syl, [index |-> index.v, text |-> syllable.s])
               /\ IF syllable.s = ZUO THEN Goto("word_table_enter")
                                      ELSE Goto("syllable_table")
    /\ UNCHANGED <<env, outs, hz_offset, meta, wtv>>

\* read_scel: file_size = os.path.getsize(scel); word_table: f.seek(hz_offset); words = []
WordTableEnter ==
    /\ pc = "word_table_enter"
    /\ Goto("wt_while")
    /\ file_size' = scel.size
    /\ pos' = hz_offset
    /\ words' = <<>>
    /\ g_blocks' = <<>>
    /\ g_recs' = <<>>
    /\ g_short' = FALSE
    /\ g_iter' = hz_offset
    /\ UNCHANGED <<env, outs, hz_offset, meta, sylv, blockv>>

\* while f.tell() != file_size: into the body
WtWhileEnter ==
    /\ pc = "wt_while"
    /\ pos # file_size
    /\ Goto("wt_block")
    /\ g_iter' = pos
    /\ UNCHANGED <<env, outs, pos, hz_offset, meta, sylv, file_size, words, blockv,
                   g_blocks, g_recs, g_short>>

\* while f.tell() != file_size: out of the loop, return words (and read_scel returns)
WtReturn ==
    /\ pc = "wt_while"
    /\ pos = file_size
    /\ Goto("write_flat")
    /\ UNCHANGED <<env, outs, pos, hz_offset, meta, sylv, wtv>>

\* syllables = [], at the start of every block
NewSyllablesKept == syllables

NewSyllables == <<>>

\* word_cnt = read_uint16(f); syllable_cnt = read_uint16(f); syllables = []
WtBlock ==
    /\ pc = "wt_block"
    /\ \E wc \in {ReadUint16(scel, pos)} :
        \E sc \in {ReadUint16(scel, wc.pos)} :
          IF ~wc.ok
          THEN /\ Raise(wc.kind, 0, "word_table") /\ pos' = wc.pos
               /\ g_short' = TRUE
               /\ UNCHANGED <<blockv, g_blocks>>
          ELSE IF ~sc.ok
          THEN /\ Raise(sc.kind, 0, "word_table") /\ pos' = sc.pos
               /\ g_short' = TRUE
               /\ UNCHANGED <<blockv, g_blocks>>
          ELSE /\ Goto("wt_syl")
               /\ pos' = sc.pos
               /\ word_cnt' = wc.v
               /\ syllable_cnt' = sc.v
               /\ syllables' = NewSyllables
               /\ s_i' = 0
               /\ g_blocks' = Append(g_blocks, [start |-> pos, word_cnt |-> wc.v,
                                                syllable_cnt |-> sc.v, idx |-> <<>>,
                                                appended |-> 0])
               /\ UNCHANGED <<full_spell, w_i, g_short>>
    /\ UNCHANGED <<env, outs, hz_offset, meta, sylv, file_size, words, g_recs, g_iter>>

\* for _ in range(syllable_cnt // 2): one pass
WtSylRead ==
    /\ pc = "wt_syl"
    /\ s_i < syllable_cnt \div 2
    /\ \E syllable_index \in {ReadUint16(scel, pos)} :
          /\ pos' = syllable_index.pos
          /\ IF ~syllable_index.ok
             THEN /\ Raise(syllable_index.kind, 0, "word_table")
                  /\ g_short' = TRUE
                  /\ UNCHANGED <<syllables, s_i, g_blocks>>
             ELSE IF syllable_index.v \notin DOMAIN py_map
             THEN /\ Raise("ValueError", syllable_index.v, "word_table")
                  /\ UNCHANGED <<syllables, s_i, g_blocks, g_short>>
             ELSE /\ Goto("wt_syl")
                  /\ syllables' = Append(syllables, py_map[syllable_index.v])
                  /\ s_i' = s_i + 1
                  /\ g_blocks' = [g_blocks EXCEPT ![Len(g_blocks)].idx =
                                      Append(@, syllable_index.v)]
                  /\ UNCHANGED g_short
    /\ UNCHANGED <<env, outs, hz_offset, meta, sylv, file_size, words, word_cnt,
                   syllable_cnt, full_spell, w_i, g_recs, g_iter>>

\* full_spell = " ".join(syllables)
WtJoin ==
    /\ pc = "wt_syl"
    /\ ~(s_i < syllable_cnt \div 2)
    /\ Goto("wt_word")
    /\ full_spell' = Join(syllables, SPACE)
    /\ w_i' = 0
    /\ UNCHANGED <<env, outs, pos, hz_offset, meta, sylv, file_size, words, word_cnt,
                   syllable_cnt, syllables, s_i, g_blocks, g_recs, g_short, g_iter>>

MoreWordsOffByOne == w_i + 1 < word_cnt

\* for _ in range(word_cnt): another pass to run
MoreWords == w_i < word_cnt

\* the frequency taken from the first two of the 12 bytes, the ext_len field
ReadExtFirstField(p) ==
    IF args.use_ext_as_frequency
    THEN LET freq == ReadUint16(scel, p)
             rest == Skip(scel, freq.pos, EXT_BYTES - EXT_LEN_BYTES)
         IN [ok |-> freq.ok, kind |-> freq.kind, fields |-> <<Str(freq.v)>>,
             pos |-> IF freq.ok THEN rest.pos ELSE freq.pos,
             short |-> freq.short \/ rest.short]
    ELSE LET all == Skip(scel, p, EXT_BYTES)
         IN [ok |-> TRUE, kind |-> "none", fields |-> <<>>, pos |-> all.pos,
             short |-> all.short]

\* The 12 bytes after a word.  use_ext_as_frequency: f.read(2); freq =
\* read_uint16(f); f.read(8), and the record gets str(freq).  Otherwise f.read(12).
ReadExt(p) ==
    IF args.use_ext_as_frequency
    THEN LET len == Skip(scel, p, EXT_LEN_BYTES)
             freq == ReadUint16(scel, len.pos)
             rest == Skip(scel, freq.pos, EXT_REST_BYTES)
         IN [ok |-> freq.ok, kind |-> freq.kind, fields |-> <<Str(freq.v)>>,
             pos |-> IF freq.ok THEN rest.pos ELSE freq.pos,
             short |-> len.short \/ freq.short \/ rest.short]
    ELSE LET all == Skip(scel, p, EXT_BYTES)
         IN [ok |-> TRUE, kind |-> "none", fields |-> <<>>, pos |-> all.pos,
             short |-> all.short]

\* one pass of for _ in range(word_cnt)
WtWordRead ==
    /\ pc = "wt_word"
    /\ MoreWords
    /\ \E char_cnt \in {ReadUint16(scel, pos)} :
        \E word \in {ReadUtf16Str(scel, char_cnt.pos, char_cnt.v)} :
        \E ext \in {ReadExt(word.pos)} :
          IF ~char_cnt.ok
          THEN /\ Raise(char_cnt.kind, 0, "word_table") /\ pos' = char_cnt.pos
               /\ g_short' = TRUE
               /\ UNCHANGED <<words, w_i, g_blocks, g_recs>>
          ELSE IF ~word.ok
          THEN /\ Raise(word.kind, 0, "word_table") /\ pos' = word.pos
               /\ g_short' = (g_short \/ word.short)
               /\ UNCHANGED <<words, w_i, g_blocks, g_recs>>
          ELSE IF ~ext.ok
          THEN /\ Raise(ext.kind, 0, "word_table") /\ pos' = ext.pos
               /\ g_short' = TRUE
               /\ UNCHANGED <<words, w_i, g_blocks, g_recs>>
          ELSE /\ Goto("wt_word")
               /\ pos' = ext.pos
               /\ words' = Append(words, <<word.s, full_spell>> \o ext.fields)
               /\ w_i' = w_i + 1
               /\ g_short' = (g_short \/ word.short \/ ext.short)
               /\ g_blocks' = [g_blocks EXCEPT ![Len(g_blocks)].appended = @ + 1]
               /\ g_recs' = Append(g_recs, [block |-> Len(g_blocks), at |-> pos,
                                            ext_at |-> word.pos, ext_end |-> ext.pos])
    /\ UNCHANGED <<env, outs, hz_offset, meta, sylv, file_size, word_cnt, syllable_cnt,
                   syllables, full_spell, s_i, g_iter>>

\* the block's words are read: back to the while test
WtBlockEnd ==
    /\ pc = "wt_word"
    /\ ~MoreWords
    /\ Goto("wt_while")
    /\ UNCHANGED <<env, outs, pos, hz_offset, meta, sylv, wtv>>

----------------------------------------------------------------------------
(* The emitter: the flat file, and the merge into <rime_dir>/cn_dicts. *)

TXT == <<46, 116, 120, 116>>
DICT_YAML == <<46, 100, 105, 99, 116, 46, 121, 97, 109, 108>>
TERMINATOR == <<DOT, DOT, DOT, LF>>
SLASH == 47
WhiteSpace == {TAB, LF, 11, 12, 13, SPACE}

\* s.strip()
Strip(s) ==
    LET ink == {i \in 1..Len(s) : s[i] \notin WhiteSpace}
    IN IF ink = {} THEN <<>>
       ELSE SubSeq(s, CHOOSE i \in ink : \A j \in ink : i <= j, SetMax(ink))

\* os.path.basename
Basename(path) ==
    LET sl == {i \in 1..Len(path) : path[i] = SLASH}
    IN IF sl = {} THEN path ELSE SubSeq(path, SetMax(sl) + 1, Len(path))

\* fp.readlines(): every line keeps its "\n"; the last may have none
ReadLines(text) ==
    LET ends == {i \in 1..Len(text) : text[i] = LF \/ i = Len(text)}
        End(k) == CHOOSE e \in ends : Cardinality({x \in ends : x <= e}) = k
    IN [k \in 1..Cardinality(ends) |->
           SubSeq(text, IF k = 1 THEN 1 ELSE End(k - 1) + 1, End(k))]

\* x.split("\t")[0]
FirstColumn(x) ==
    LET tabs == {i \in 1..Len(x) : x[i] = TAB}
    IN IF tabs = {} THEN x
       ELSE SubSeq(x, 1, (CHOOSE i \in tabs : \A j \in tabs : i <= j) - 1)

\* the first columns of the lines after the first "...\n", the last line left
\* out when it is blank
WordsAfter(lines) ==
    LET found == {i \in 1..Len(lines) : lines[i] = TERMINATOR}
    IN IF found = {}
       THEN [ok |-> FALSE, words |-> {}]
       ELSE LET index == CHOOSE i \in found : \A j \in found : i <= j
                last == IF Strip(lines[Len(lines)]) = <<>> THEN Len(lines) - 1
                        ELSE Len(lines)
            IN [ok |-> TRUE, words |-> {FirstColumn(lines[i]) : i \in (index + 1)..last}]

\* unique_words._words_set; lines.index("...\n") raises ValueError when no line
\* is "...\n"
WordsSet(text) == Only({WordsAfter(lines) : lines \in {ReadLines(text)}})

\* [record for record in res_records if not _check_word(record, words)]
FilterRecords(records, old_words) ==
    LET keep == {i \in 1..Len(records) : records[i][1] \notin old_words}
        F[i \in 0..Len(records)] ==
            IF i = 0 THEN <<>>
            ELSE IF i \in keep THEN Append(F[i - 1], records[i]) ELSE F[i - 1]
    IN F[Len(records)]

RECURSIVE UniqueWords(_, _, _)
\* unique_words: the files of cn_dicts in the order os.listdir gives them
UniqueWords(dir, names, records) ==
    IF names = <<>> THEN [ok |-> TRUE, recs |-> records]
    ELSE LET old == WordsSet(dir[Head(names)])
         IN IF ~old.ok THEN [ok |-> FALSE, recs |-> <<>>]
            ELSE CHOOSE r \in {UniqueWords(dir, Tail(names), rest) :
                               rest \in {FilterRecords(records, old.words)}} : TRUE

\* the orders os.listdir may give the files in
Listings(dir) ==
    LET n == Cardinality(DOMAIN dir)
    IN {s \in [1..n -> DOMAIN dir] : \A i, j \in 1..n : s[i] = s[j] => i = j}

\* read_header: the two placeholders replaced, the text stripped
ReadHeaderText(pieces, scel_path, dict_name) ==
    Strip(Flatten([i \in 1..Len(pieces) |->
              IF pieces[i].kind = "__source_file__" THEN Basename(scel_path)
              ELSE IF pieces[i].kind = "__dict_name__" THEN dict_name
              ELSE pieces[i].text]))

\* process_raw_txt: output = output or meta.title + ".txt"; to_raw_txt; writeout
WriteFlat ==
    /\ pc = "write_flat"
    /\ Goto("after_flat")
    /\ flat' = [path |-> IF args.output = None THEN meta.title \o TXT ELSE args.output,
                text |-> ToRawTxt(words), exists |-> TRUE]
    /\ UNCHANGED <<env, cn_dir, header, uniq_words, g_dir, pos, hz_offset, meta, sylv, wtv>>

\* process: if not args.rime_dir: return
ProcessReturn ==
    /\ pc = "after_flat"
    /\ args.rime_dir = None
    /\ Goto("done")
    /\ UNCHANGED <<env, outs, pos, hz_offset, meta, sylv, wtv>>

\* process: header = read_header(scel, dict_name)
ReadHeader ==
    /\ pc = "after_flat"
    /\ args.rime_dir # None
    /\ Goto("process_rime_dict")
    /\ header' = ReadHeaderText(header_yaml, args.scel, args.dict_name)
    /\ UNCHANGED <<env, cn_dir, flat, uniq_words, g_dir, pos, hz_offset, meta, sylv, wtv>>

\* process_rime_dict: make_path, unique_words, and the dictionary file written
\* unless no record is left
ProcessRimeDict ==
    /\ pc = "process_rime_dict"
    /\ \E names \in Listings(cn_dir), full_path \in {args.dict_name \o DICT_YAML} :
        \E u \in {UniqueWords(cn_dir, names, words)} :
             /\ g_dir' = cn_dir
             /\ IF ~u.ok
                THEN Raise("ValueError", 0, "unique_words")
                     /\ UNCHANGED <<cn_dir, uniq_words>>
                ELSE /\ Goto("done")
                     /\ uniq_words' = u.recs
                     /\ IF Len(u.recs) = 0
                        THEN cn_dir' = cn_dir
                        ELSE cn_dir' = DictSet(cn_dir, full_path,
                                           header \o <<LF>> \o ToRawTxt(u.recs))
    /\ UNCHANGED <<env, flat, header, pos, hz_offset, meta, sylv, wtv>>

----------------------------------------------------------------------------
(* The inputs. *)

SYL_A == <<97>>
SYL_NI == <<110, 105>>
SYL_HAO == <<104, 97, 111>>

\* a syllable table as the format has it: indices 0, 1, 2, ... and "zuo" last
GoodTable ==
    <<[index |-> 0, text |-> SYL_A, pad |-> 0], [index |-> 1, text |-> SYL_NI, pad |-> 0],
      [index |-> 2, text |-> SYL_HAO, pad |-> 1], [index |-> 3, text |-> ZUO, pad |-> 0]>>

\* the j-th word of a block, in two flavours
WordOf(v, j) ==
    IF v = 1 THEN [text |-> <<20013, 19968 + j>>, pad |-> 0, freq |-> 42]
             ELSE [text |-> <<22909 + j>>, pad |-> 1, freq |-> 299 + j]

BlockOf(idx, n, v) == [idx |-> idx, words |-> [j \in 1..n |-> WordOf(v, j)]]

IdxChoices == {<<>>, <<1, 2>>, <<3>>}
GoodBlocks ==
    {BlockOf(idx, n, IF idx = <<1, 2>> THEN 1 ELSE 2) : idx \in IdxChoices, n \in 0..MaxWords}
FewBlocks == {BlockOf(<<>>, 0, 1), BlockOf(<<1, 2>>, 1, 1), BlockOf(<<3>>, MaxWords, 2)}
\* an index the table does not hold; a word that is a lone surrogate; a word
\* that is a surrogate pair
OddBlocks ==
    {BlockOf(<<1, 4>>, 1, 1),
     [idx |-> <<1>>, words |-> <<[text |-> <<55357>>, pad |-> 0, freq |-> 1]>>],
     [idx |-> <<1>>, words |-> <<[text |-> <<55357, 56832>>, pad |-> 0, freq |-> 1]>>]}
ExtraBytes == {<<0>>, <<0, 0>>, <<0, 0, 0>>, <<1, 0, 0, 0>>, <<0, 0, 2, 0>>, <<7, 7, 7, 7, 7>>}

RECURSIVE SylTables(_)
\* tables of n entries: each index right or one too high, "zuo" anywhere
SylTables(n) ==
    IF n = 0 THEN {<<>>}
    ELSE {Append(t, [index |-> i, text |-> tp[1], pad |-> tp[2]]) :
             t \in SylTables(n - 1), i \in {n - 1, n},
             tp \in {<<SYL_NI, 0>>, <<ZUO, 0>>, <<ZUO, 1>>}}

ScelPath == <<100, SLASH, 115>>
DictName == <<100>>
RimeDir == "rime"
OutputPath == <<111>>

Args(flag) ==
    [scel |-> ScelPath, scel_exists |-> TRUE, output |-> None,
     use_ext_as_frequency |-> flag, rime_dir |-> RimeDir, dict_name |-> DictName]

\* ./header.yaml: "# __source_file__\nn:__dict_name__\n...\n\n"
HeaderYaml ==
    <<[kind |-> "text", text |-> <<35, SPACE>>], [kind |-> "__source_file__", text |-> <<>>],
      [kind |-> "text", text |-> <<LF, 110, 58>>], [kind |-> "__dict_name__", text |-> <<>>],
      [kind |-> "text", text |-> <<LF, DOT, DOT, DOT, LF, LF>>]>>

\* a dictionary already in cn_dicts, holding the first word of the first flavour
BaseDir ==
    [n \in {<<98>> \o DICT_YAML} |->
        <<45, 45, 45, LF>> \o TERMINATOR \o WordOf(1, 1).text \o <<TAB, 120, LF>>]

Source(kind, mask, table, blocks, cut) ==
    [kind |-> kind, mask |-> mask, table |-> table, blocks |-> blocks, cut |-> cut]

\* the state process() is in at `label`, its locals not yet bound
Begin(a, f, dir, s, label, recs, hd) ==
    /\ args = a /\ scel = f /\ header_yaml = HeaderYaml /\ cn_dir = dir /\ src = s
    /\ flat = NoFile /\ pc = label /\ err = NoErr /\ pos = 0
    /\ hz_offset = 0
    /\ meta = [title |-> <<>>, category |-> <<>>, desc |-> <<>>, samples |-> <<>>]
    /\ py_map = <<>> /\ cnt = 0 /\ file_size = 0
    /\ words = recs /\ word_cnt = 0 /\ syllable_cnt = 0 /\ syllables = <<>>
    /\ full_spell = <<>> /\ s_i = 0 /\ w_i = 0
    /\ header = hd /\ runs = 1 /\ uniq_words = <<>> /\ g_dir = dir
    /\ g_syl = <<>> /\ g_blocks = <<>> /\ g_recs = <<>> /\ g_short = FALSE /\ g_iter = 0

Start(a, f, dir, s) == Begin(a, f, dir, s, "check_args", <<>>, <<>>)

\* the whole file: table, then the blocks' bytes less the last `cut` of them
FileOf(mask, table, wbytes, cut) ==
    MakeScel(mask, EncTable(table), SubSeq(wbytes, 1, Len(wbytes) - cut),
             TableAt(mask) + Len(wbytes) - cut)

\* well-formed files
InitGood ==
    \E bs \in SeqsUpTo(GoodBlocks, MaxBlocks), flag \in BOOLEAN :
        Start(Args(flag), FileOf(MASK_44, GoodTable, EncBlocks(bs), 0), BaseDir,
              Source("wellformed", MASK_44, GoodTable, bs, 0))

\* files whose last block is cut short, by every number of bytes
InitCut ==
    \E pre \in SeqsUpTo(FewBlocks, MaxBlocks - 1), last \in FewBlocks \cup OddBlocks,
       flag \in BOOLEAN, mask \in {MASK_44, MASK_45} :
        \E cut \in 0..Len(EncBlock(last)) :
            /\ mask = MASK_45 => pre = <<>>
            /\ Start(Args(flag),
                     FileOf(mask, GoodTable, EncBlocks(Append(pre, last)), cut), BaseDir,
                     Source(IF last \in OddBlocks THEN "odd"
                            ELSE IF cut = 0 THEN "wellformed" ELSE "cut",
                            mask, GoodTable, Append(pre, last), cut))

\* files with bytes after the last block
InitExtra ==
    \E bs \in SeqsUpTo(FewBlocks, MaxBlocks - 1), x \in ExtraBytes, flag \in BOOLEAN :
        Start(Args(flag), FileOf(MASK_44, GoodTable, EncBlocks(bs) \o x, 0), BaseDir,
              Source("extra", MASK_44, GoodTable, bs, 0))

\* syllable tables, right and wrong; the file whole, or ending at the table's
\* end or shortly before it
InitTable ==
    \E n \in 1..MaxSyl :
      \E t \in SylTables(n), short \in {0, 1, 2, 4} :
        LET wbytes == EncBlock(BlockOf(<<0>>, 1, 1))
            whole == FileOf(MASK_44, t, wbytes, 0)
            f == IF short = 0 THEN whole
                 ELSE [whole EXCEPT !.size = SYLLABLE_AT + Len(EncTable(t)) + 1 - short]
        IN Start(Args(FALSE), f, BaseDir,
                 Source("table", MASK_44, t, <<BlockOf(<<0>>, 1, 1)>>, short))

\* every mask byte; and files too short to hold one
InitMask ==
    \/ \E mask \in 0..255 :
         Start(Args(FALSE), FileOf(mask, GoodTable, EncBlock(BlockOf(<<1>>, 1, 1)), 0),
               BaseDir, Source("mask", mask, GoodTable, <<BlockOf(<<1>>, 1, 1)>>, 0))
    \/ \E n \in 0..(MASK_INDEX + 1) :
         Start(Args(FALSE), [FileOf(MASK_44, GoodTable, <<>>, 0) EXCEPT !.size = n],
               BaseDir, Source("short", MASK_44, GoodTable, <<>>, 0))

\* the other command lines
InitArgs ==
    \E a \in {[Args(TRUE) EXCEPT !.scel_exists = FALSE],
              [Args(TRUE) EXCEPT !.dict_name = None],
              [Args(TRUE) EXCEPT !.rime_dir = None, !.dict_name = None],
              [Args(FALSE) EXCEPT !.rime_dir = None, !.output = OutputPath]} :
        Start(a, FileOf(MASK_44, GoodTable, EncBlock(BlockOf(<<1, 2>>, 1, 1)), 0), BaseDir,
              Source("wellformed", MASK_44, GoodTable, <<BlockOf(<<1, 2>>, 1, 1)>>, 0))

Init == InitGood \/ InitCut \/ InitExtra \/ InitTable \/ InitMask \/ InitArgs

Next ==
    \/ CheckArgs \/ GetHzOffset \/ GetDictMeta
    \/ SyllableTableEnter \/ SyllableEntry
    \/ WordTableEnter \/ WtWhileEnter \/ WtReturn \/ WtBlock \/ WtSylRead \/ WtJoin
    \/ WtWordRead \/ WtBlockEnd
    \/ WriteFlat \/ ProcessReturn \/ ReadHeader \/ ProcessRimeDict

\* one run of process() on every input
Spec == Init /\ [][Next]_vars

\* The merge alone: decoded records, and dictionaries already in cn_dicts.
W_F == <<102>>
W_B == <<98>>
W_C == <<99>>
RecordChoices == {<<W_F, SYL_NI>>, <<W_B, SYL_A>>, <<W_C, ZUO>>}
RecordLists == SeqsUpTo(RecordChoices, MaxRecs)

\* "---\n...\nf\tni\n"; "...\nb\n", a word with no code after it; "...\nb\tx",
\* no newline at the end; "...\nc\tz\n\n", a blank last line; "..." alone,
\* without a newline
DictTexts ==
    {<<45, 45, 45, LF>> \o TERMINATOR \o W_F \o <<TAB>> \o SYL_NI \o <<LF>>,
     TERMINATOR \o W_B \o <<LF>>,
     TERMINATOR \o W_B \o <<TAB, 120>>,
     TERMINATOR \o W_C \o <<TAB, 122, LF, LF>>,
     <<DOT, DOT, DOT>>}
DictNames == {<<97>> \o DICT_YAML, <<98>> \o DICT_YAML}
Dirs == UNION {[S -> DictTexts] : S \in SUBSET DictNames}

InitMerge ==
    \E recs \in RecordLists, dir \in Dirs :
        Begin(Args(FALSE), FileOf(MASK_44, GoodTable, <<>>, 0), dir,
              Source("merge", MASK_44, GoodTable, <<>>, 0), "process_rime_dict", recs,
              ReadHeaderText(HeaderYaml, ScelPath, DictName))

\* another run of process() into the same cn_dicts with the same --dict-name,
\* taken up where its input is decoded
NextInvocation ==
    /\ pc = "done"
    /\ runs < MaxRuns
    /\ runs' = runs + 1
    /\ words' \in RecordLists
    /\ Goto("process_rime_dict")
    /\ UNCHANGED <<args, scel, header_yaml, src, outs, pos, hz_offset, meta, sylv,
                   file_size, blockv, g_blocks, g_recs, g_short, g_iter>>

NextMerge == ProcessRimeDict \/ NextInvocation

\* runs of the merge, one after the other, into one directory
SpecMerge == InitMerge /\ [][NextMerge]_vars

\* before process() is called: nothing is read yet
Idle ==
    Begin(Args(FALSE), FileOf(MASK_44, GoodTable, <<>>, 0), BaseDir,
          Source("none", MASK_44, GoodTable, <<>>, 0), "idle", <<>>, <<>>)

Input(a, f, s) == [a |-> a, f |-> f, s |-> s]

\* files whose last block is cut short by every number of bytes; whole files
\* with and without bytes after the last block; syllable tables right and
\* wrong; a file that ends before its word table; a run without --rime-dir
TermInputs ==
    UNION {{Input(Args(flag), FileOf(MASK_44, GoodTable, EncBlock(last), cut),
                  Source("cut", MASK_44, GoodTable, <<last>>, cut)) :
               cut \in 0..Len(EncBlock(last)), flag \in BOOLEAN} :
           last \in FewBlocks \cup OddBlocks}
    \cup {Input(Args(FALSE), FileOf(MASK_44, GoodTable, EncBlocks(Append(pre, last)) \o x, 0),
                Source("extra", MASK_44, GoodTable, Append(pre, last), 0)) :
             pre \in SeqsUpTo(FewBlocks, MaxBlocks - 1), last \in FewBlocks,
             x \in ExtraBytes \cup {<<>>}}
    \cup {Input(Args(FALSE), FileOf(MASK_44, t, EncBlock(BlockOf(<<0>>, 1, 1)), 0),
                Source("table", MASK_44, t, <<BlockOf(<<0>>, 1, 1)>>, 0)) :
             t \in SylTables(MaxSyl - 1)}
    \cup {Input(Args(FALSE),
                [FileOf(MASK_44, GoodTable, <<>>, 0) EXCEPT !.size = HZ_OFFSET_44 - 1],
                Source("short", MASK_44, GoodTable, <<>>, 0)),
          Input([Args(FALSE) EXCEPT !.rime_dir = None],
                FileOf(MASK_44, GoodTable, EncBlock(BlockOf(<<1, 2>>, 1, 1)), 0),
                Source("wellformed", MASK_44, GoodTable, <<BlockOf(<<1, 2>>, 1, 1)>>, 0))}

\* process(args()) is called on one of the inputs
Invoke ==
    /\ pc = "idle"
    /\ \E in \in TermInputs : args' = in.a /\ scel' = in.f /\ src' = in.s
    /\ Goto("check_args")
    /\ UNCHANGED <<header_yaml, runs, outs, pos, hz_offset, meta, sylv, wtv>>

NextTerm == Invoke \/ Next

\* process() runs to its end without waiting on anything: a step that can be
\* taken is taken
SpecTerm == Idle /\ [][NextTerm]_vars /\ WF_vars(NextTerm)

----------------------------------------------------------------------------
(* The properties. *)

Range(f) == {f[x] : x \in DOMAIN f}
Decoding == {"get_hz_offset", "get_dict_meta", "syllable_table", "word_table"}
InWordTable == {"wt_while", "wt_block", "wt_syl", "wt_word"}
AfterWordTable == {"write_flat", "after_flat", "process_rime_dict", "done"}

\* the syllables of the indices idx, one space between two of them
SpacedSyllables(map, idx) ==
    Flatten([k \in 1..Len(idx) |-> IF k = 1 THEN map[idx[k]] ELSE <<32>> \o map[idx[k]]])

\* the mapping a table stands for
TableMap(table) == [k \in {e.index : e \in Range(table)} |->
                       (CHOOSE e \in Range(table) : e.index = k).text]

\* the (word, romanization) pairs and the frequencies a well-formed file holds
FilePairs(s) ==
    Flatten([b \in 1..Len(s.blocks) |->
               [j \in 1..Len(s.blocks[b].words) |->
                   <<s.blocks[b].words[j].text,
                     SpacedSyllables(TableMap(s.table), s.blocks[b].idx)>>]])
FileFreqs(s) ==
    Flatten([b \in 1..Len(s.blocks) |->
               [j \in 1..Len(s.blocks[b].words) |-> s.blocks[b].words[j].freq]])

RECURSIVE DecimalValue(_)
DecimalValue(d) ==
    IF d = <<>> THEN 0 ELSE 10 * DecimalValue(SubSeq(d, 1, Len(d) - 1)) + (d[Len(d)] - 48)
IsDecimalText(d) ==
    /\ Len(d) >= 1
    /\ \A i \in 1..Len(d) : d[i] \in 48..57
    /\ Len(d) > 1 => d[1] # 48

\* C1: word_table returns a record list only if the last block ends exactly at
\* the file size: no read inside it came back short of what it asked for.
C1_ReturnsOnlyIfExact == pc = "write_flat" => ~g_short

\* C2: get_hz_offset gives 0x2628 for mask 0x44, 0x26C4 for mask 0x45, and for any
\* other byte at index 4 fails with an error carrying that byte; no other offset.
C2_HzOffset ==
    LET mask == ByteAt(scel, 4)
        past == pc \notin {"check_args", "get_hz_offset"}
                   /\ ~(pc = "failed" /\ err.where = "check_args")
    IN (past /\ scel.size > 4) =>
          /\ mask = 68 => hz_offset = 9768 /\ err.where # "get_hz_offset"
          /\ mask = 69 => hz_offset = 9924 /\ err.where # "get_hz_offset"
          /\ mask \notin {68, 69} =>
                /\ pc = "failed"
                /\ err = [kind |-> "ValueError", value |-> mask, where |-> "get_hz_offset"]
C2_Witness == pc = "get_dict_meta" /\ ByteAt(scel, 4) = 69 /\ hz_offset = 9924

\* C3: every record's romanization is the syllables of its own block's indices,
\* in their order, one space between two; the words of a block share it.
C3_Romanization ==
    /\ \A i \in 1..Len(words) :
          words[i][2] = SpacedSyllables(py_map, g_blocks[g_recs[i].block].idx)
    /\ \A i, j \in 1..Len(words) :
          g_recs[i].block = g_recs[j].block => words[i][2] = words[j][2]
    /\ (pc = "write_flat" /\ src.kind = "wellformed") =>
          [i \in 1..Len(words) |-> words[i][2]]
             = [i \in 1..Len(FilePairs(src)) |-> FilePairs(src)[i][2]]
C3_Witness ==
    /\ pc = "write_flat"
    /\ \E i, j \in 1..Len(words) :
          /\ i < j
          /\ words[i][2] = <<110, 105, 32, 104, 97, 111>>
          /\ words[j][2] = <<122, 117, 111>>

\* C4: a decode that returns gives each block exactly word_cnt records, in file
\* order, so the list is as long as the declared counts add up to.
C4_CountAndOrder ==
    LET Declared[b \in 0..Len(g_blocks)] ==
            IF b = 0 THEN 0 ELSE Declared[b - 1] + g_blocks[b].word_cnt
    IN /\ Len(g_recs) = Len(words)
       /\ \A i, j \in 1..Len(g_recs) :
             i < j => g_recs[i].at < g_recs[j].at /\ g_recs[i].block <= g_recs[j].block
       /\ pc = "write_flat" =>
             /\ \A b \in 1..Len(g_blocks) :
                   /\ g_blocks[b].appended = g_blocks[b].word_cnt
                   /\ Cardinality({i \in 1..Len(g_recs) : g_recs[i].block = b})
                         = g_blocks[b].word_cnt
             /\ Len(words) = Declared[Len(g_blocks)]
             /\ src.kind = "wellformed" =>
                   [i \in 1..Len(words) |-> words[i][1]]
                      = [i \in 1..Len(FilePairs(src)) |-> FilePairs(src)[i][1]]
C4_Witness ==
    /\ pc = "write_flat"
    /\ Len(g_blocks) = 2
    /\ g_blocks[1].word_cnt = 0
    /\ g_blocks[2].word_cnt = 2
    /\ Len(words) = 2

\* C5: in syllable_table the mapping's keys are 0..cnt-1 in parse order; an
\* index that differs from the counter fails the decode and no mapping is
\* returned; a returned mapping ends with "zuo" and holds no earlier "zuo".
C5_SyllableTable ==
    LET returned == pc \in {"word_table_enter"} \cup InWordTable \cup AfterWordTable
                      \/ (pc = "failed" /\ err.where \in {"word_table", "unique_words"})
        wrong == {k \in 1..Len(src.table) :
                     /\ src.table[k].index # k - 1
                     /\ \A h \in 1..(k - 1) : src.table[h].text # <<122, 117, 111>>}
    IN /\ pc \notin {"check_args", "get_hz_offset", "get_dict_meta", "syllable_table_enter"}
          /\ err.where \notin {"check_args", "get_hz_offset", "get_dict_meta"} =>
             /\ DOMAIN py_map = 0..(cnt - 1)
             /\ Len(g_syl) = cnt
             /\ \A k \in 1..cnt : g_syl[k].index = k - 1 /\ py_map[k - 1] = g_syl[k].text
       /\ (pc = "failed" /\ err.kind = "AssertionError") => err.value # cnt
       /\ returned =>
             /\ cnt >= 1
             /\ py_map[cnt - 1] = <<122, 117, 111>>
             /\ \A k \in 0..(cnt - 2) : py_map[k] # <<122, 117, 111>>
             /\ src.kind = "table" => wrong = {}
C5_Witness ==
    /\ pc = "failed" /\ err.kind = "AssertionError" /\ err.where = "syllable_table"
    /\ cnt = 2 /\ err.value = 3
    /\ DOMAIN py_map = {0, 1}

\* C6: a failed decoding step ends the run with nothing written: the flat file
\* is written only once the word table is decoded, the merge never follows a
\* failure.
C6_NothingWrittenOnFailure ==
    /\ err # NoErr => pc = "failed"
    /\ (pc = "failed" /\ err.where \in Decoding) => ~flat.exists /\ cn_dir = g_dir
    /\ pc \in {"check_args", "get_hz_offset", "get_dict_meta", "syllable_table_enter",
               "syllable_table", "word_table_enter", "write_flat"} \cup InWordTable =>
          ~flat.exists /\ cn_dir = g_dir
    /\ flat.exists => pos = file_size /\ flat.text = ToRawTxt(words)
C6_Witness ==
    /\ pc = "failed" /\ err.where = "word_table" /\ err.kind = "ValueError"
    /\ err.value = 4 /\ Len(words) >= 1
    /\ ~flat.exists /\ cn_dir = g_dir

\* C8: on a well-formed input both layouts consume 12 bytes after every word
\* and give the same words and romanizations; with the flag a record has three
\* fields, the third the decimal text of the 16-bit value at bytes 2..3 of the
\* 12, without it two.
C8_BothLayouts ==
    (pc = "write_flat" /\ src.kind = "wellformed") =>
       /\ Len(words) = Len(FilePairs(src))
       /\ \A i \in 1..Len(words) :
             /\ SubSeq(words[i], 1, 2) = FilePairs(src)[i]
             /\ g_recs[i].ext_end - g_recs[i].ext_at = 12
             /\ Len(words[i]) = IF args.use_ext_as_frequency THEN 3 ELSE 2
             /\ args.use_ext_as_frequency =>
                   /\ IsDecimalText(words[i][3])
                   /\ DecimalValue(words[i][3]) = FileFreqs(src)[i]
                   /\ DecimalValue(words[i][3])
                         = ByteAt(scel, g_recs[i].ext_at + 2)
                              + 256 * ByteAt(scel, g_recs[i].ext_at + 3)
C8_Witness ==
    /\ pc = "write_flat" /\ src.kind = "wellformed" /\ args.use_ext_as_frequency
    /\ Len(words) = 2
    /\ words[1][3] = <<51, 48, 48>>
    /\ words[2][3] = <<51, 48, 49>>

\* C9: decoding ends, by returning or by failing; every pass of the
\* syllable-table loop and of the word-table loop moves the stream on or fails;
\* the stream is not past the file size while the word-table loop runs on.
C9_Terminates ==
    /\ pc = "check_args" ~> pc \in {"done", "failed"}
    /\ [][(pc = "syllable_table" /\ pc' # "failed") => pos' > pos]_vars
    /\ [](pc = "wt_while" /\ g_blocks # <<>> => pos > g_iter)
    /\ []((pc \in InWordTable /\ pos > file_size) =>
             g_blocks = <<>> /\ pc \in {"wt_while", "wt_block"})
    /\ [][(pc = "wt_block" /\ pos > file_size) => pc' = "failed"]_vars
C9_Witness ==
    /\ pc = "wt_while"
    /\ Len(g_blocks) = 2
    /\ g_blocks[2].word_cnt = 0 /\ g_blocks[2].syllable_cnt = 0
    /\ pos = g_iter + 4

----------------------------------------------------------------------------
(* The merge, as the specification reads a dictionary file: a line is what  *)
(* stands between two line ends.                                          *)

LineText(line) ==
    IF line # <<>> /\ line[Len(line)] = 10 THEN SubSeq(line, 1, Len(line) - 1) ELSE line
HasTerminatorLine(text) ==
    \E i \in 1..Len(ReadLines(text)) : LineText(ReadLines(text)[i]) = <<46, 46, 46>>
ColumnsAfterTerminator(text) ==
    LET lines == ReadLines(text)
        first == CHOOSE i \in 1..Len(lines) :
                    /\ LineText(lines[i]) = <<46, 46, 46>>
                    /\ \A j \in 1..(i - 1) : LineText(lines[j]) # <<46, 46, 46>>
    IN {FirstColumn(LineText(lines[i])) : i \in (first + 1)..Len(lines)}
KnownWords(dir) ==
    UNION {ColumnsAfterTerminator(dir[n]) : n \in {m \in DOMAIN dir : HasTerminatorLine(dir[m])}}
RECURSIVE Unknown(_, _)
Unknown(records, known) ==
    IF records = <<>> THEN <<>>
    ELSE IF Head(records)[1] \in known THEN Unknown(Tail(records), known)
         ELSE <<Head(records)>> \o Unknown(Tail(records), known)

\* C7: with a "..." line in every file of the directory, unique_words returns
\* exactly the records whose word is the first tab-delimited column of no line
\* after the terminator of any file, in their order, whatever order the files
\* are listed in.
C7_UniqueWordsExact ==
    (pc \in {"done", "failed"} /\ \A n \in DOMAIN g_dir : HasTerminatorLine(g_dir[n])) =>
       /\ pc = "done"
       /\ uniq_words = Unknown(words, KnownWords(g_dir))
       /\ \A names \in Listings(g_dir) : UniqueWords(g_dir, names, words).recs = uniq_words

\* C10: after completed merge runs into one directory under one dictionary
\* name, every word the latest run decoded is the first column of a record line
\* of some file of the directory.
C10_NoWordLost ==
    pc = "done" => \A i \in 1..Len(words) : words[i][1] \in KnownWords(cn_dir)

====
